---- MODULE Spec2Model ----
(***************************************************************************)
(* buffered_logger (src/src/lib.rs): a buffered, rotating, compressing     *)
(* file logger.  Producers send Message values on an unbounded crossbeam   *)
(* channel; one worker thread (Logger::start) owns the byte buffer, the    *)
(* active file and the list of rotated archives; each rotation spawns a    *)
(* detached compression thread.                                            *)
(*                                                                         *)
(* Bytes are modelled as naturals: the text of the k-th submitted entry is *)
(* k repeated len times, 0 is a byte that was not written by this worker   *)
(* (the zero-initialised buffer, a log file found at startup).             *)
(* Archive paths are modelled by their timestamp (a natural); the sort     *)
(* order of the paths is the order of the timestamps.  The name 0 stands   *)
(* for a file of an earlier time that this logger did not archive: as a    *)
(* .gz it is the archive of another log of the same directory whose stem   *)
(* ends with this log's stem ("am.<stamp>.log.gz" beside "m.log"), which   *)
(* sorts before every "m.<stamp>.log.gz"; as a renamed file it is an       *)
(* uncompressed "m.<stamp>.log" left by an earlier run.                    *)
(*                                                                         *)
(* The echo of a flushed slice to stdout (lib.rs 251-253, 271-273) writes  *)
(* the same bytes as the file write before it and changes nothing the      *)
(* worker reads; it is not part of the state.  Removing a file that a      *)
(* compression thread still writes unlinks it (POSIX): the archive is gone *)
(* when the thread ends.                                                   *)
(***************************************************************************)
EXTENDS Naturals, Sequences, FiniteSets, Bags

\* Bounds of the model.
MaxSize == 2
MaxRetain == 1
MaxMsgs == 3

BufferSizes == 1..MaxSize
RotateSizes == 1..(MaxSize + 1)
EntryLens == 1..MaxSize
InitFileLens == {0, MaxSize}
RetainValues == 0..MaxRetain
ExistingCounts == {0, MaxRetain + 1}

VARIABLES
    buffer_size,    \* Logger.buffer_size
    rotate_size,    \* Logger.rotate_size
    retain,         \* Logger.retain
    logger_alive,   \* some Logger handle (each holds a Receiver) is alive
    queue,          \* messages in the channel, in send order
    send_failed,    \* a producer's send(...).unwrap() has panicked
    sent,           \* number of messages sent so far
    entries,        \* number of Msg messages sent so far
    worker,         \* "init" | "running" | "index_panic" | "io_panic"
    curr_len,       \* worker local: buffer fill
    bytes_buf,      \* worker local: the buffer, Len = buffer_size
    file_size,      \* worker local: size estimate of the active file
    file,           \* worker local: the generation the open file handle refers to
    rotated_items,  \* worker local: archive paths kept (the retention window)
    gens,           \* content of every file generation; the last is the active file
    rawfiles,       \* renamed, not yet compressed files on disk (timestamps)
    gzfiles,        \* .gz archives on disk (timestamps)
    tasks,          \* bag of the timestamps of the running compression threads
    clock,          \* the last timestamp read
    created,        \* history: every archive path scanned or pushed, in order
    recvd,          \* history: texts of the entries the worker received
    second,         \* the locals of the worker thread of a second start() call
    last            \* history: what the last worker step did

vars == << buffer_size, rotate_size, retain, logger_alive, queue, send_failed,
           sent, entries, worker, curr_len, bytes_buf, file_size, file,
           rotated_items, gens, rawfiles, gzfiles, tasks, clock, created,
           recvd, second, last >>

config == << buffer_size, rotate_size, retain >>
chan == << queue, send_failed, sent, entries >>
wstate == << worker, curr_len, bytes_buf, file_size, file, rotated_items,
            recvd, second, last >>
disk == << gens, rawfiles, gzfiles, tasks, clock, created >>

----------------------------------------------------------------------------
\* Helpers on sequences.

Last(s) == s[Len(s)]

Repeat(b, n) == [i \in 1..n |-> b]

RECURSIVE Flatten(_)
Flatten(ss) == IF ss = << >> THEN << >> ELSE Head(ss) \o Flatten(Tail(ss))

\* The elements of a finite set of naturals in ascending order
\* (rotated_items.sort(), lib.rs 204).
RECURSIVE SortedSeq(_)
SortedSeq(S) ==
    IF S = {} THEN << >>
    ELSE LET m == CHOOSE x \in S : \A y \in S : x <= y
         IN << m >> \o SortedSeq(S \ {m})

AppendLast(gs, bytes) == [gs EXCEPT ![Len(gs)] = @ \o bytes]

NoLast == [op |-> "none", len |-> 0, rotated |-> FALSE, overflow |-> FALSE]

----------------------------------------------------------------------------
\* Messages (enum Message).

FlushMsg == [type |-> "Flush", data |-> << >>]
RotateMsg == [type |-> "Rotate", data |-> << >>]
EntryMsg(text) == [type |-> "Msg", data |-> text]

\* A send succeeds while some Receiver exists: every Logger handle holds one,
\* and so does the worker's clone `this` as long as the worker thread lives.
ReceiverExists == logger_alive \/ worker = "running"

----------------------------------------------------------------------------
\* The worker's view of its locals and of the disk, as one record, so that
\* the steps of a handler compose in program order.

WorkerView == [file_size |-> file_size, file |-> file,
               rotated_items |-> rotated_items,
               gens |-> gens, rawfiles |-> rawfiles, gzfiles |-> gzfiles,
               tasks |-> tasks, clock |-> clock, created |-> created,
               curr_len |-> curr_len, bytes_buf |-> bytes_buf,
               panic |-> "none"]

\* Outcomes of the I/O calls of one handler run: all succeed, or the
\* rename/reopen of a rotation fails, or a write_all fails (each is
\* .unwrap()ed, so a failure panics the worker thread).
IoOutcomes == {"ok", "rename_fails", "write_fails"}

\* Prune with the loop test off by one: one path too many is kept.
RECURSIVE Prune_keeps_one_more(_, _, _)
Prune_keeps_one_more(items, gz, keep) ==
    IF Len(items) > keep + 1
    THEN Prune_keeps_one_more(Tail(items), gz \ {Head(items)}, keep)
    ELSE [items |-> items, gz |-> gz]

\* lib.rs 225-230: while rotated_items.len() > retain
\*                   { remove_file(&rotated_items[0]) (result ignored);
\*                     rotated_items.remove(0); }
RECURSIVE Prune(_, _, _)
Prune(items, gz, keep) ==
    IF Len(items) > keep
    THEN Prune(Tail(items), gz \ {Head(items)}, keep)
    ELSE [items |-> items, gz |-> gz]

\* rotate without the assignment to *file: the handle stays on the file that
\* was renamed.
rotate_keeps_handle(st, now, io) ==
    LET st0 == [st EXCEPT !.file_size = 0, !.clock = now] IN
    IF io = "rename_fails"
    THEN [st0 EXCEPT !.panic = "io"]
    ELSE LET pruned == Prune(Append(st.rotated_items, now), st.gzfiles, retain)
         IN [st0 EXCEPT !.rawfiles = @ \cup {now},
                        !.gens = Append(@, << >>),
                        !.rotated_items = pruned.items,
                        !.gzfiles = pruned.gz,
                        !.created = Append(@, now),
                        !.tasks = @ (+) SetToBag({now})]

\* lib.rs 207-243: the rotate closure.  `now` is the timestamp read at line
\* 211, it names the renamed file and its future archive.  The rename keeps
\* the file's content under the new name; *file is then assigned a handle on
\* a new, empty file at log_path (lib.rs 217-221).
rotate(st, now, io) ==
    LET st0 == [st EXCEPT !.file_size = 0, !.clock = now] IN
    IF io = "rename_fails"
    THEN [st0 EXCEPT !.panic = "io"]
    ELSE LET pruned == Prune(Append(st.rotated_items, now), st.gzfiles, retain)
         IN [st0 EXCEPT !.rawfiles = @ \cup {now},
                        !.gens = Append(@, << >>),
                        !.file = Len(st.gens) + 1,
                        !.rotated_items = pruned.items,
                        !.gzfiles = pruned.gz,
                        !.created = Append(@, now),
                        !.tasks = @ (+) SetToBag({now})]

\* file.write_all(s) on a handle opened for append: s goes to the end of the
\* file the handle refers to.
write_all(files, handle, s) == [files EXCEPT ![handle] = @ \o s]

\* write_buf writing the whole vector instead of its first curr_len bytes.
write_whole_buf(st, io) ==
    IF st.curr_len > Len(st.bytes_buf)
    THEN [st EXCEPT !.panic = "index"]
    ELSE IF io = "write_fails"
         THEN [st EXCEPT !.panic = "io"]
         ELSE [st EXCEPT !.gens = write_all(@, st.file, st.bytes_buf)]

\* lib.rs 249-250 / 269-270: let s = &bytes_buf[0..curr_len] (a checked
\* slice); file.write_all(s).unwrap()
write_buf(st, io) ==
    IF st.curr_len > Len(st.bytes_buf)
    THEN [st EXCEPT !.panic = "index"]
    ELSE IF io = "write_fails"
         THEN [st EXCEPT !.panic = "io"]
         ELSE [st EXCEPT !.gens = write_all(@, st.file,
                                            SubSeq(st.bytes_buf, 1, st.curr_len))]

\* lib.rs 248-255: Message::Flush
on_flush(st, io) ==
    LET w == write_buf(st, io) IN
    IF w.panic # "none" THEN w ELSE [w EXCEPT !.curr_len = 0]

\* size_step rotating as soon as the threshold is reached (>= for >).
size_step_rotates_at_limit(st, len, now, io) ==
    LET next_file_size == st.file_size + len IN
    IF next_file_size >= rotate_size
    THEN rotate(st, now, io)
    ELSE [st EXCEPT !.file_size = next_file_size]

\* size_step with the assignment of next_file_size outside the else branch.
size_step_counts_always(st, len, now, io) ==
    LET next_file_size == st.file_size + len IN
    IF next_file_size > rotate_size
    THEN [rotate(st, now, io) EXCEPT !.file_size = next_file_size]
    ELSE [st EXCEPT !.file_size = next_file_size]

\* lib.rs 262-267: the rotation decision of Message::Msg
size_step(st, len, now, io) ==
    LET next_file_size == st.file_size + len IN
    IF next_file_size > rotate_size
    THEN rotate(st, now, io)
    ELSE [st EXCEPT !.file_size = next_file_size]

\* bytes_buf[from..to].copy_from_slice(data): the range must lie inside the
\* vector (lib.rs 126: its length is buffer_size), else the index panics.
copy_into(buf, from, data) ==
    [i \in 1..Len(buf) |->
        IF i > from /\ i <= from + Len(data) THEN data[i - from] ELSE buf[i]]

\* buffer_step with the overflow branch ending in curr_len = next_len.
buffer_step_keeps_fill(st, data, io) ==
    LET len == Len(data)
        next_len == st.curr_len + len
    IN IF next_len > buffer_size
       THEN LET w == write_buf(st, io) IN
            IF w.panic # "none" THEN w
            ELSE IF len > Len(st.bytes_buf)
                 THEN [w EXCEPT !.panic = "index"]
                 ELSE [w EXCEPT !.bytes_buf = copy_into(@, 0, data),
                                !.curr_len = next_len]
       ELSE [st EXCEPT !.bytes_buf = copy_into(@, st.curr_len, data),
                       !.curr_len = next_len]

\* lib.rs 268-279: the buffer decision of Message::Msg
buffer_step(st, data, io) ==
    LET len == Len(data)
        next_len == st.curr_len + len
    IN IF next_len > buffer_size
       THEN LET w == write_buf(st, io) IN
            IF w.panic # "none" THEN w
            ELSE IF len > Len(st.bytes_buf)
                 THEN [w EXCEPT !.panic = "index"]
                 ELSE [w EXCEPT !.bytes_buf = copy_into(@, 0, data),
                                !.curr_len = len]
       ELSE [st EXCEPT !.bytes_buf = copy_into(@, st.curr_len, data),
                       !.curr_len = next_len]

\* lib.rs 259-280: Message::Msg
on_msg(st, data, now, io) ==
    LET s1 == size_step(st, Len(data), now, io) IN
    IF s1.panic # "none" THEN s1 ELSE buffer_step(s1, data, io)

\* The worker's locals and the disk after a handler run that ended in `st`.
Commit(st) ==
    /\ file_size' = st.file_size
    /\ file' = st.file
    /\ rotated_items' = st.rotated_items
    /\ gens' = st.gens
    /\ rawfiles' = st.rawfiles
    /\ gzfiles' = st.gzfiles
    /\ tasks' = st.tasks
    /\ clock' = st.clock
    /\ created' = st.created
    /\ curr_len' = st.curr_len
    /\ bytes_buf' = st.bytes_buf
    /\ worker' = CASE st.panic = "io" -> "io_panic"
                   [] st.panic = "index" -> "index_panic"
                   [] OTHER -> "running"

\* The timestamps a rotation can read: the clock has not advanced since the
\* last read (millisecond resolution), or it has.
Nows == {clock, clock + 1}

\* No second worker thread.
NoSecond == [state |-> "none", curr_len |-> 0, bytes_buf |-> << >>,
             file_size |-> 0, file |-> 0, rotated_items |-> << >>]

----------------------------------------------------------------------------
\* File names of the log directory, as far as the scan of Logger::start
\* reads them: what precedes the stem in the file name, whether the stem is
\* followed by the three timestamp fields and the extension, and whether the
\* name ends in ".gz".
ArchiveName(n) ==
    [head |-> IF n = 0 THEN "a" ELSE "", stamped |-> TRUE, gz |-> TRUE]
RenamedName(n) == [head |-> "", stamped |-> TRUE, gz |-> FALSE]
LogName == [head |-> "", stamped |-> FALSE, gz |-> FALSE]

\* read_dir(&log_dir), lib.rs 193: the archives, the renamed files and the
\* log file itself (opened, so created, at line 182).
Listing ==
    {<< "gz", n >> : n \in gzfiles} \cup {<< "raw", n >> : n \in rawfiles}
        \cup {<< "log", 0 >>}

NameOf(e) ==
    CASE e[1] = "gz" -> ArchiveName(e[2])
      [] e[1] = "raw" -> RenamedName(e[2])
      [] OTHER -> LogName

\* lib.rs 189-198: Regex "{stem}\\.\\d{6}\\.\\d{6}\\.\\d{3}\\.{ext}\\.gz$" and
\* re.is_match(path): a search anchored at the end of the path only, so
\* whatever precedes the stem is not looked at.
re_is_match(name) == name.stamped /\ name.gz

\* lib.rs 193-204: the paths of the listing the regex matches, sorted.
ScanArchives ==
    SortedSeq({e[2] : e \in {x \in Listing : re_is_match(NameOf(x))}})

----------------------------------------------------------------------------
\* Initial state: Logger::init has returned a handle; the log directory holds
\* a log file of some length and some archives of earlier runs, and the
\* files `foreign` (archives) and `leftover` (renamed files) besides.

InitDir(foreign, leftover) ==
    /\ buffer_size \in BufferSizes
    /\ rotate_size \in RotateSizes
    /\ retain \in RetainValues
    /\ logger_alive = TRUE
    /\ queue = << >>
    /\ send_failed = FALSE
    /\ sent = 0
    /\ entries = 0
    /\ worker = "init"
    /\ curr_len = 0
    /\ bytes_buf = << >>
    /\ file_size = 0
    /\ file = 0
    /\ rotated_items = << >>
    /\ \E n \in InitFileLens : gens = << Repeat(0, n) >>
    /\ rawfiles = leftover
    /\ \E n \in ExistingCounts : gzfiles = (1..n) \cup foreign /\ clock = n + 1
    /\ tasks = EmptyBag
    /\ created = << >>
    /\ recvd = << >>
    /\ second = NoSecond
    /\ last = NoLast

\* A directory that holds nothing but the log file and its own archives.
Init == InitDir({}, {})

\* Any directory.
InitAnyDir == \E foreign \in SUBSET {0}, leftover \in SUBSET {0} :
                 InitDir(foreign, leftover)

----------------------------------------------------------------------------
\* Producers.

\* lib.rs 302-315: Log::log of an enabled record sends Message::Msg.
Submit(len) ==
    /\ sent < MaxMsgs
    /\ ReceiverExists
    /\ queue' = Append(queue, EntryMsg(Repeat(entries + 1, len)))
    /\ sent' = sent + 1
    /\ entries' = entries + 1
    /\ UNCHANGED << send_failed, logger_alive, config, wstate, disk >>

\* lib.rs 287-289 (Logger::flush) and 317-319 (Log::flush)
RequestFlush ==
    /\ sent < MaxMsgs
    /\ ReceiverExists
    /\ queue' = Append(queue, FlushMsg)
    /\ sent' = sent + 1
    /\ UNCHANGED << entries, send_failed, logger_alive, config, wstate, disk >>

\* lib.rs 292-294: Logger::rotate, called on a Logger handle
RequestRotate ==
    /\ sent < MaxMsgs
    /\ logger_alive
    /\ queue' = Append(queue, RotateMsg)
    /\ sent' = sent + 1
    /\ UNCHANGED << entries, send_failed, logger_alive, config, wstate, disk >>

\* A send on the global Log's Sender after every Receiver is gone returns
\* Err, and .unwrap() panics the producer (lib.rs 313, 318).
SendFails ==
    /\ sent < MaxMsgs
    /\ ~ReceiverExists
    /\ send_failed' = TRUE
    /\ sent' = sent + 1
    /\ UNCHANGED << queue, entries, logger_alive, config, wstate, disk >>

\* The last Logger handle goes out of scope (its Receiver with it).
DropLogger ==
    /\ logger_alive
    /\ logger_alive' = FALSE
    /\ UNCHANGED << chan, config, wstate, disk >>

----------------------------------------------------------------------------
\* The worker thread.

\* lib.rs 122-206: Logger::start (its first call) up to the loop: the buffer
\* is allocated, the log file opened in append mode, its size read, the
\* archives scanned and sorted.
Start ==
    /\ worker = "init"
    /\ logger_alive
    /\ worker' = "running"
    /\ curr_len' = 0
    /\ bytes_buf' = Repeat(0, buffer_size)
    /\ file_size' = Len(Last(gens))
    /\ file' = Len(gens)
    /\ rotated_items' = ScanArchives
    /\ created' = ScanArchives
    /\ UNCHANGED << logger_alive, chan, config, recvd, second, last,
                    gens, rawfiles, gzfiles, tasks, clock >>

Receiving == worker = "running" /\ queue # << >>

HandleFlush(ios) ==
    /\ Receiving
    /\ Head(queue).type = "Flush"
    /\ \E io \in ios :
          /\ Commit(on_flush(WorkerView, io))
          /\ last' = [NoLast EXCEPT !.op = "Flush"]
    /\ queue' = Tail(queue)
    /\ UNCHANGED << recvd, second, send_failed, sent, entries, logger_alive,
                    config >>

HandleRotate(ios) ==
    /\ Receiving
    /\ Head(queue).type = "Rotate"
    /\ \E io \in ios, now \in Nows :
          /\ Commit(rotate(WorkerView, now, io))
          /\ last' = [NoLast EXCEPT !.op = "Rotate", !.rotated = TRUE]
    /\ queue' = Tail(queue)
    /\ UNCHANGED << recvd, second, send_failed, sent, entries, logger_alive,
                    config >>

HandleMsg(ios) ==
    /\ Receiving
    /\ Head(queue).type = "Msg"
    /\ LET data == Head(queue).data
           rot == file_size + Len(data) > rotate_size
       IN \E io \in ios, now \in (IF rot THEN Nows ELSE {clock}) :
             /\ Commit(on_msg(WorkerView, data, now, io))
             /\ last' = [op |-> "Msg", len |-> Len(data), rotated |-> rot,
                         overflow |-> curr_len + Len(data) > buffer_size]
             /\ recvd' = Append(recvd, data)
    /\ queue' = Tail(queue)
    /\ UNCHANGED << second, send_failed, sent, entries, logger_alive, config >>

----------------------------------------------------------------------------
\* A further call of start() on the Logger or a clone (lib.rs 122-127): it
\* clones the handle, Receiver included, and spawns another thread that runs
\* the same code with locals of its own: buffer, file handle on log_path,
\* file_size and rotated_items.  One further call is modelled.
StartAgain ==
    /\ worker # "init"
    /\ logger_alive
    /\ second.state = "none"
    /\ second' = [state |-> "running", curr_len |-> 0,
                  bytes_buf |-> Repeat(0, buffer_size),
                  file_size |-> Len(Last(gens)), file |-> Len(gens),
                  rotated_items |-> ScanArchives]
    /\ UNCHANGED << worker, curr_len, bytes_buf, file_size, file,
                    rotated_items, recvd, last, logger_alive, chan, config,
                    disk >>

\* The second thread's locals and the shared directory, as a handler sees
\* them.
SecondView == [file_size |-> second.file_size, file |-> second.file,
               rotated_items |-> second.rotated_items,
               gens |-> gens, rawfiles |-> rawfiles, gzfiles |-> gzfiles,
               tasks |-> tasks, clock |-> clock, created |-> created,
               curr_len |-> second.curr_len, bytes_buf |-> second.bytes_buf,
               panic |-> "none"]

\* The second thread receives the message at the head of the channel
\* (lib.rs 246: both threads block in recv() on clones of one Receiver, each
\* message goes to one of them) and handles it (lib.rs 247-281).
SecondHandle ==
    /\ second.state = "running"
    /\ queue # << >>
    /\ \E now \in Nows :
          LET m == Head(queue)
              st == CASE m.type = "Flush" -> on_flush(SecondView, "ok")
                      [] m.type = "Rotate" -> rotate(SecondView, now, "ok")
                      [] OTHER -> on_msg(SecondView, m.data, now, "ok")
          IN /\ second' = [state |-> IF st.panic = "none" THEN "running"
                                                          ELSE "index_panic",
                           curr_len |-> st.curr_len,
                           bytes_buf |-> st.bytes_buf,
                           file_size |-> st.file_size, file |-> st.file,
                           rotated_items |-> st.rotated_items]
             /\ gens' = st.gens
             /\ rawfiles' = st.rawfiles
             /\ gzfiles' = st.gzfiles
             /\ tasks' = st.tasks
             /\ clock' = st.clock
             /\ created' = st.created
    /\ queue' = Tail(queue)
    /\ UNCHANGED << worker, curr_len, bytes_buf, file_size, file,
                    rotated_items, recvd, last, send_failed, sent, entries,
                    logger_alive, config >>

----------------------------------------------------------------------------
\* The detached compression thread of one rotation (lib.rs 231-242), as one
\* step on the directory: File::create(zip_path) creates (or truncates) the
\* archive, the renamed file is copied through the encoder and removed.  (When
\* the renamed file is already gone the thread panics at the open of line
\* 233, after the archive was created.)
Compress(ts) ==
    /\ BagIn(ts, tasks)
    /\ gzfiles' = gzfiles \cup {ts}
    /\ rawfiles' = rawfiles \ {ts}
    /\ tasks' = tasks (-) SetToBag({ts})
    /\ UNCHANGED << gens, clock, created, chan, logger_alive, config, wstate >>

----------------------------------------------------------------------------

\* Normal operation: the Logger handle returned by Logger::init lives as long
\* as the program (src/src/main.rs keeps it until the join that never
\* returns) and every I/O call succeeds.
Produce ==
    \/ \E len \in EntryLens : Submit(len)
    \/ RequestFlush
    \/ RequestRotate

Next ==
    \/ Produce
    \/ Start
    \/ HandleFlush({"ok"})
    \/ HandleRotate({"ok"})
    \/ HandleMsg({"ok"})
    \/ \E ts \in BagToSet(tasks) : Compress(ts)

Spec == Init /\ [][Next]_vars

\* The same with the failures of the environment: an I/O call of the worker
\* may fail, and the program may drop its Logger handles.
NextLifecycle ==
    \/ Produce
    \/ SendFails
    \/ DropLogger
    \/ Start
    \/ HandleFlush(IoOutcomes)
    \/ HandleRotate(IoOutcomes)
    \/ HandleMsg(IoOutcomes)
    \/ \E ts \in BagToSet(tasks) : Compress(ts)

LifecycleSpec == Init /\ [][NextLifecycle]_vars

\* Normal operation of a program that calls start() a second time.
NextRestarted == Next \/ StartAgain \/ SecondHandle
RestartedSpec == Init /\ [][NextRestarted]_vars

\* Normal operation in a directory that may hold other files.
AnyDirSpec == InitAnyDir /\ [][Next]_vars

\* Fair scheduling: the worker thread and the compression threads are OS
\* threads that run whenever they can.
WorkerStep == HandleFlush({"ok"}) \/ HandleRotate({"ok"}) \/ HandleMsg({"ok"})

FairSpec ==
    /\ Spec
    /\ WF_vars(Start)
    /\ WF_vars(WorkerStep)
    /\ WF_vars(\E ts \in BagToSet(tasks) : Compress(ts))

----------------------------------------------------------------------------
\* Derived views used by the properties.

Started == worker # "init"
Alive == worker = "running"
Dead == worker \in {"index_panic", "io_panic"}

\* The bytes the buffer holds: its first curr_len bytes.
Buffered == SubSeq(bytes_buf, 1, curr_len)

\* The active file, and the length the log file had when the worker started
\* (the only 0 bytes of a file are those found at startup).
ActiveFile == Last(gens)
InitLen == Cardinality({i \in 1..Len(gens[1]) : gens[1][i] = 0})

\* Every byte this worker has written to a file, in write order.
Written == SubSeq(Flatten(gens), InitLen + 1, Len(Flatten(gens)))

\* Number of rotations so far, and of archives found at startup.
Rotations == Len(gens) - 1
Existing == Len(created) - Rotations

Min(a, b) == IF a < b THEN a ELSE b

\* The last n elements of a sequence.
Suffix(s, n) == SubSeq(s, Len(s) - n + 1, Len(s))

Range(s) == {s[i] : i \in 1..Len(s)}

----------------------------------------------------------------------------
\* C1 - Buffer capacity: after every message the worker has processed, the
\* fill is at most buffer_size, unless the buffer holds exactly one entry
\* (the last one received) whose own length exceeds buffer_size.
C1_BufferCapacity ==
    Started =>
        \/ curr_len <= buffer_size
        \/ /\ recvd # << >>
           /\ Len(Last(recvd)) > buffer_size
           /\ curr_len = Len(Last(recvd))

\* An overflowing entry was processed and the buffer is full.
C1_Witness ==
    /\ Alive
    /\ last.op = "Msg" /\ last.overflow
    /\ curr_len = buffer_size
    /\ buffer_size >= 2
    /\ Len(recvd) >= 2

\* C2 - An entry longer than buffer_size is accepted: the worker flushes the
\* buffer, holds that entry alone (fill = its length) and stays alive.
C2_OversizedAccepted ==
    (last.op = "Msg" /\ last.len > buffer_size) =>
        /\ Alive
        /\ curr_len = last.len

\* C3 - Rotation before entry: an entry of length L that arrives while
\* file_size + L > rotate_size rotates the file first, and afterwards
\* file_size = L.
C3_FileSizeCountsEntry ==
    (Alive /\ last.op = "Msg" /\ last.rotated) => file_size = last.len

\* C4 - No over-size file: starting from an empty log file and with entries
\* no longer than rotate_size, no file generation ever holds more than
\* rotate_size bytes.
C4_NoOversizeFile ==
    (/\ Started
     /\ InitLen = 0
     /\ \A i \in 1..Len(recvd) : Len(recvd[i]) <= rotate_size)
    => \A g \in 1..Len(gens) : Len(gens[g]) <= rotate_size

\* Worker steps as seen from outside: the worker takes the head of the queue.
Takes(type) ==
    /\ Receiving
    /\ Head(queue).type = type
    /\ queue' = Tail(queue)

FlushStep == Takes("Flush")
OverflowStep == Takes("Msg") /\ curr_len + Len(Head(queue).data) > buffer_size
RotationInStep == Len(gens') > Len(gens)

\* This step appended exactly the buffered bytes to the file that was active
\* when the write happened (the fresh file when the step rotated first), and
\* wrote to no other file.
FlushedExactly ==
    IF RotationInStep
    THEN gens' = gens \o << Buffered >>
    ELSE gens' = AppendLast(gens, Buffered)

\* C5 (as claimed) - Flush correctness: after a FlushRequest, and after the
\* implicit flush of an overflowing Entry, the active file holds its earlier
\* content followed by exactly the buffered bytes, and the fill is 0.
C5_FlushLeavesFillZero ==
    [][(FlushStep \/ OverflowStep) => (FlushedExactly /\ curr_len' = 0)]_vars

\* C5 (amended) - the file part holds for both kinds of flush; the fill is 0
\* after a FlushRequest, and after an overflowing Entry it is the length of
\* the new entry, which the buffer holds alone; an overflowing Entry longer
\* than the buffer ends the worker right after the write, the fill unchanged.
C5_FlushCorrect ==
    [][/\ FlushStep => (FlushedExactly /\ curr_len' = 0)
       /\ OverflowStep =>
            /\ FlushedExactly
            /\ LET data == Head(queue).data IN
               IF Len(data) <= buffer_size
               THEN /\ worker' = "running"
                    /\ curr_len' = Len(data)
                    /\ SubSeq(bytes_buf', 1, Len(data)) = data
               ELSE /\ worker' = "index_panic"
                    /\ curr_len' = curr_len]_vars

\* An overflowing entry has pushed a partly filled buffer to the active file.
C5_Witness ==
    /\ Alive
    /\ last.op = "Msg" /\ last.overflow
    /\ curr_len = last.len
    /\ curr_len < buffer_size
    /\ ActiveFile # << >>

Sorted(s) == \A i, j \in 1..Len(s) : i < j => s[i] <= s[j]

\* C6 - Retention bound: once a rotation has happened the retention window
\* holds min(retain, archives created) paths, they are the most recently
\* created ones, in creation order (oldest first, which is the name order).
C6_RetentionBound ==
    (Started /\ Rotations >= 1) =>
        /\ Len(rotated_items) <= retain
        /\ Len(rotated_items) = Min(retain, Len(created))
        /\ rotated_items = Suffix(created, Len(rotated_items))
        /\ Sorted(rotated_items)

\* A rotation has pushed the oldest archive out of a non-empty window.
C6_Witness ==
    /\ Alive
    /\ last.rotated
    /\ retain >= 1
    /\ Len(created) > retain
    /\ Len(rotated_items) = retain
    /\ rotated_items[1] > created[1]

\* C7 - On-disk retention: starting from a directory without archives, once
\* every compression thread has finished the archives on disk are exactly
\* the min(n, retain) most recently created ones (stated for a live worker,
\* retain >= 1 and rotations that read distinct timestamps).
C7_OnDiskRetention ==
    (/\ Alive
     /\ retain >= 1
     /\ Existing = 0
     /\ Cardinality(Range(created)) = Len(created)
     /\ tasks = EmptyBag)
    => gzfiles = Range(Suffix(created, Min(Rotations, retain)))

\* C8 - Once the worker thread has terminated, every later send of a
\* producer fails and no message is accepted into the queue.
C8_NoSendAfterWorkerGone ==
    [][(Dead /\ sent' = sent + 1) => (send_failed' /\ queue' = queue)]_vars

\* C9 - Entry order and no loss: the bytes written to the files so far,
\* followed by the buffered bytes, are the texts of the entries the worker
\* has received, in receive order.
C9_EntryOrderNoLoss ==
    Started => Written \o Buffered = Flatten(recvd)

\* The same for the runs the worker survives.
EntryOrderWhileAlive ==
    Alive => Written \o Buffered = Flatten(recvd)

\* Entry k (its bytes are k) was sent before a flush request that is still
\* in the queue.
FlushPendingAfter(k) ==
    \E j \in 1..Len(queue) :
        /\ queue[j].type = "Flush"
        /\ \/ \E r \in 1..Len(recvd) : recvd[r][1] = k
           \/ \E i \in 1..(j - 1) :
                 queue[i].type = "Msg" /\ queue[i].data[1] = k

\* Every byte of entry k has been written to a file.
OnDisk(k) ==
    \E r \in 1..Len(recvd) :
        /\ recvd[r][1] = k
        /\ Cardinality({i \in 1..Len(Written) : Written[i] = k}) = Len(recvd[r])

\* C10 - Flush boundary liveness: an entry submitted before a flush request
\* is eventually on disk, under fair scheduling of the worker.
C10_FlushBoundaryLiveness ==
    \A k \in 1..MaxMsgs : FlushPendingAfter(k) ~> OnDisk(k)

\* The safety half: when a FlushRequest has just been processed, every entry
\* received before it is on disk.
FlushedWhenProcessed ==
    (Alive /\ last.op = "Flush") =>
        \A r \in 1..Len(recvd) : OnDisk(recvd[r][1])

\* What the archive naming pattern <stem>.<yymmdd>.<HHMMSS>.<mmm>.<ext>.gz
\* says of a file name.
NamedAsArchive(name) == name.head = "" /\ name.stamped /\ name.gz

\* The archives of this log in the directory.
OwnArchives == {n \in gzfiles : NamedAsArchive(ArchiveName(n))}

\* C11 - Startup reconciliation: before the first message is processed the
\* retention window is exactly the files of the directory that match the
\* archive naming pattern, each once, in ascending name order.
C11_StartupWindow ==
    (worker = "running" /\ last.op = "none") =>
        /\ Range(rotated_items) = OwnArchives
        /\ Len(rotated_items) = Cardinality(OwnArchives)
        /\ Sorted(rotated_items)

\* What the scan does deliver: the files whose path ends like an archive.
StartupWindowByRegex ==
    (worker = "running" /\ last.op = "none") =>
        /\ Range(rotated_items) = gzfiles
        /\ Len(rotated_items) = Cardinality(gzfiles)
        /\ Sorted(rotated_items)

\* C12 - Buffer policy: an entry of length L that meets a fill f is appended
\* to the buffer (fill f + L, nothing written to a file) when
\* f + L <= buffer_size; when f + L > buffer_size the f buffered bytes are
\* written to the active file and the buffer then holds the entry alone
\* (fill L).
C12_BufferPolicy ==
    [][Takes("Msg") =>
         LET data == Head(queue).data
             L == Len(data)
         IN IF curr_len + L <= buffer_size
            THEN /\ curr_len' = curr_len + L
                 /\ Buffered' = Buffered \o data
                 /\ gens' \in {gens, Append(gens, << >>)}
            ELSE /\ FlushedExactly
                 /\ curr_len' = L
                 /\ SubSeq(bytes_buf', 1, L) = data]_vars

\* The policy as far as the code carries it out: the same for every entry
\* that is no longer than the buffer.
BufferPolicyOfFittingEntries ==
    [][(Takes("Msg") /\ Len(Head(queue).data) <= buffer_size) =>
         LET data == Head(queue).data
             L == Len(data)
         IN IF curr_len + L <= buffer_size
            THEN /\ curr_len' = curr_len + L
                 /\ Buffered' = Buffered \o data
                 /\ gens' \in {gens, Append(gens, << >>)}
            ELSE /\ FlushedExactly
                 /\ curr_len' = L
                 /\ SubSeq(bytes_buf', 1, L) = data]_vars

\* C13 - Rotation trigger: the worker rotates while it processes an entry of
\* length L exactly when file_size + L > rotate_size; otherwise the retention
\* window and the active file stay what they were and file_size grows by L.
\* The rotation is decided before the buffer overflow: the bytes an
\* overflowing entry pushes out in a rotating step land in the fresh file.
C13_RotationTrigger ==
    [][Takes("Msg") =>
         LET L == Len(Head(queue).data) IN
         /\ RotationInStep <=> file_size + L > rotate_size
         /\ ~RotationInStep =>
               /\ rotated_items' = rotated_items
               /\ created' = created
               /\ rawfiles' = rawfiles
               /\ Len(gens') = Len(gens)
               /\ file_size' = file_size + L
         /\ (RotationInStep /\ curr_len + L > buffer_size) =>
               gens' = gens \o << Buffered >>]_vars

\* An entry that brought file_size exactly to rotate_size did not rotate, and
\* another one rotated and pushed buffered bytes into the fresh file.
C13_Witness ==
    /\ Alive
    /\ last.op = "Msg" /\ ~last.rotated
    /\ file_size = rotate_size
    /\ Rotations >= 1
    /\ \E g \in 2..Len(gens) : gens[g] # << >> /\ gens[g - 1] = << >>

\* C14 - file_size is optimistic: in every state file_size is at least the
\* number of bytes written to the active file since the last rotation, plus
\* the length the file had at startup while no rotation has happened (that
\* is, at least the length of the active file).
C14_FileSizeUpperBound ==
    Started => file_size >= Len(ActiveFile)

\* C15 - Window invariant at all times: from the end of the startup scan on,
\* the retention window never holds more than `retain` paths, however many
\* archives the directory held at startup.
C15_WindowNeverExceedsRetain ==
    Started => Len(rotated_items) <= retain

\* C16 - A rotated-out file is frozen at rename time: no step changes the
\* content of a file that has been renamed, a rotation leaves the content of
\* the file it renames and the buffered bytes as they are, and every write
\* after it goes through a handle on the freshly opened active file.
C16_RenamedFileFrozen ==
    [][/\ \A g \in 1..(Len(gens) - 1) : gens'[g] = gens[g]
       /\ RotationInStep =>
             /\ Len(gens') = Len(gens) + 1
             /\ gens'[Len(gens)] = gens[Len(gens)]
             /\ file' = Len(gens')
       /\ Takes("Rotate") =>
             /\ RotationInStep
             /\ bytes_buf' = bytes_buf
             /\ curr_len' = curr_len
             /\ Last(gens') = << >>
       /\ (Takes("Msg") /\ RotationInStep) =>
             LET data == Head(queue).data IN
             IF curr_len + Len(data) > buffer_size
             THEN Last(gens') = Buffered
             ELSE Last(gens') = << >> /\ Buffered' = Buffered \o data
       /\ Started => file = Len(gens)]_vars

\* An entry was buffered, a rotate request renamed the file, and the flush
\* that followed wrote the entry to the fresh file.
C16_Witness ==
    /\ Alive
    /\ last.op = "Flush"
    /\ Rotations = 1
    /\ Len(recvd) = 1
    /\ InitLen + Len(recvd[1]) <= rotate_size
    /\ file_size = 0
    /\ ActiveFile = recvd[1]
    /\ gens[1] = Repeat(0, InitLen)

\* C17 - Archive names are unique: two rotations of one worker never produce
\* the same name, so no rotation renames the active file onto a file of an
\* earlier rotation and no path is pushed to the retention window twice,
\* also when the rotations fall into the same millisecond.
C17_ArchiveNamesUnique ==
    /\ Started => Cardinality(Range(created)) = Len(created)
    /\ Started => Cardinality(Range(rotated_items)) = Len(rotated_items)

\* The compression thread of the rotation named ts ends in this step.
CompressionEnds(ts) ==
    /\ BagIn(ts, tasks)
    /\ tasks' = tasks (-) SetToBag({ts})

\* C18 - Compression completes without blocking ingestion: under fair
\* scheduling the compression thread of every rotation ends, having
\* compressed the renamed file it was spawned for (the file was there to be
\* opened) and leaving <renamed>.gz and no uncompressed renamed file; and
\* whenever a compression thread is running, the worker can process the
\* message at the head of the queue.
C18_CompressionCompletes ==
    /\ (tasks # EmptyBag) ~> (tasks = EmptyBag)
    /\ [][\A ts \in BagToSet(tasks) :
             CompressionEnds(ts) =>
                /\ ts \in rawfiles
                /\ ts \in gzfiles'
                /\ ts \notin rawfiles']_vars
    /\ []((tasks # EmptyBag /\ Receiving) => ENABLED WorkerStep)

\* What holds of the threads: each one ends, and the worker never waits for
\* one.
CompressionEndsWorkerNotBlocked ==
    /\ (tasks # EmptyBag) ~> (tasks = EmptyBag)
    /\ []((tasks # EmptyBag /\ Receiving) => ENABLED WorkerStep)

\* The threads that run the worker loop.
WorkerThreads ==
    (IF worker # "init" THEN {"first"} ELSE {})
        \cup (IF second.state # "none" THEN {"second"} ELSE {})

\* C19 - Single consumer: whatever the sequence of start() calls on a Logger
\* and its clones, at most one worker thread receives from the channel and
\* owns buffer, active file and retention window.
C19_SingleConsumer == Cardinality(WorkerThreads) <= 1

\* With two threads in the loop the files are no longer what one worker
\* makes of them: a file renamed by one thread is written to by the other,
\* which still holds its handle.
SecondWriterKeepsToActiveFile ==
    [][\A g \in 1..(Len(gens) - 1) : gens'[g] = gens[g]]_vars

\* C20 - file_size within the threshold: after the worker has processed an
\* Entry or a RotateRequest file_size <= rotate_size, and a FlushRequest
\* leaves file_size unchanged; file_size exceeds rotate_size only before the
\* first Entry or RotateRequest, when the log file found at startup was
\* already longer than rotate_size.
C20_FileSizeWithinThreshold ==
    /\ [][/\ (Takes("Msg") \/ Takes("Rotate")) => file_size' <= rotate_size
          /\ Takes("Flush") => file_size' = file_size]_vars
    /\ [](file_size > rotate_size =>
             /\ recvd = << >>
             /\ Rotations = 0
             /\ file_size = InitLen)

\* The worker started on a log file longer than rotate_size, and the first
\* entry, which rotated, was followed by one that was counted.
C20_Witness ==
    /\ Alive
    /\ InitLen > rotate_size
    /\ last.op = "Msg" /\ ~last.rotated
    /\ Len(recvd) = 2
    /\ Rotations = 1
    /\ file_size = last.len

====
